---------------------------- MODULE Spec2Model ----------------------------
(***************************************************************************)
(* UDS-REPL-Lab (uds_uds.py): the ISO-TP single-frame codec, the ECU stub  *)
(* MiniECUStub.run (unit dispatcher) and the client UDSClientSF.send       *)
(* (transaction engine), connected by two python-can virtual bus nodes.    *)
(*                                                                         *)
(* Bytes are integers 0..255; a payload (bytes object) is a sequence of    *)
(* bytes, indexed from 1 (Python uds[0] is uds[1] here).                   *)
(*                                                                         *)
(* Time is counted in ticks of 50 ms, the poll interval of the client's    *)
(* bus.recv(timeout=0.05).  Computation takes no time: only time.sleep and *)
(* an empty bus.recv let time pass, so Tick is enabled only when every     *)
(* thread is blocked in one of them.                                       *)
(***************************************************************************)
EXTENDS Integers, Sequences, FiniteSets, TLC

VARIABLES
    cliPc,        \* UDSClientSF.send: "idle" | "loop" | "recv" | "exit"
    cliReq,       \* payload argument of the current / last send call
    cliResult,    \* outcome of the last send call
    cliTimeout,   \* UDSClientSF.timeout, in ticks
    cliElapsed,   \* time.time() - start, in ticks, capped at cliTimeout
    sinceSend,    \* ticks since bus.send of the current / last request (history)
    atSend,       \* the unit's security state when that request was sent, and
                  \* whether no earlier request was waiting at the unit (history)
    last_interim, \* send's local last_interim (<<>> is None)
    cliQ,         \* frames queued at the client's bus node
    ecuQ,         \* frames queued at the ECU's bus node
    ecuPc,        \* MiniECUStub.run: "top" | "recv" | "sleep" | "stopped",
                  \* or "crashed": an exception has ended the thread
    running,      \* MiniECUStub._running
    uds,          \* run's local uds: the request of the current iteration
    ecuSlept,     \* ticks spent in time.sleep(0.15)
    last_seed,    \* MiniECUStub._last_seed (<<>> is None, <<s>> a seed)
    unlocked,     \* MiniECUStub.unlocked
    ecuTx         \* payloads passed to send_sf in the current iteration

vars == <<cliPc, cliReq, cliResult, cliTimeout, cliElapsed, sinceSend, atSend,
          last_interim, cliQ, ecuQ, ecuPc, running, uds, ecuSlept, last_seed, unlocked,
          ecuTx>>

cliVars == <<cliPc, cliReq, cliResult, cliTimeout, cliElapsed, sinceSend, atSend,
            last_interim>>
ecuVars == <<ecuPc, running, uds, ecuSlept, last_seed, unlocked, ecuTx>>

---------------------------------------------------------------------------
(* Configuration                                                           *)

\* ECUConfig.req_id = 0x7E0, ECUConfig.res_id = 0x7E8
REQ_ID == 2016
RES_ID == 2024

\* time.sleep(0.15) in ticks of 50 ms
PendingDelay == 3
\* UDSClientSF.__init__ timeout=1.5 and main's timeout=1.8, in ticks
DefaultTimeout == 30
MainTimeout == 36

\* The client starts a transaction only while at most MaxStale frames are
\* still queued at its bus node and fewer than MaxPending at the ECU's.
MaxStale == 2
MaxPending == 1
\* Another node of the bus sends a frame only while fewer than MaxForeign
\* frames are queued at the receiving node.
MaxForeign == 1
\* Other nodes send to the ECU only while fewer than MaxBus frames are queued
\* at its node and none at the client's.
MaxBus == 2

Min(a, b) == IF a < b THEN a ELSE b

---------------------------------------------------------------------------
(* ISO-TP single-frame codec                                               *)

Zeros(n) == [i \in 1..n |-> 0]

\* make_isotp_single_frame raises ValueError for len(payload) > 7
CanEncodeNoCheck(payload) == TRUE
CanEncode(payload) == Len(payload) <= 7

\* pci byte, payload, zero padding up to 8 bytes (ljust never truncates)
MakeSF(payload) ==
    LET data == <<Len(payload) % 16>> \o payload
    IN  IF Len(data) >= 8 THEN data ELSE data \o Zeros(8 - Len(data))

\* data[1:1+length]: a slice, cut at the end of data
ParseSFNoLength(data) == IF Len(data) = 0 THEN <<>> ELSE Tail(data)
ParseSF(data) ==
    IF Len(data) = 0 THEN <<>>
    ELSE LET length == data[1] % 16
         IN  SubSeq(data, 2, Min(1 + length, Len(data)))

Frame(id, data) == [id |-> id, data |-> data]

---------------------------------------------------------------------------
(* MiniECUStub: the service handlers of run                                *)
(* A handler yields [out, sleep, seed, unlocked]: the payloads it passes   *)
(* to send_sf before it either ends the iteration or enters time.sleep,    *)
(* whether it enters time.sleep, and the new _last_seed and unlocked.      *)

\* did_map
DidKeys == {<<241, 135>>, <<241, 136>>, <<241, 140>>, <<241, 137>>,
            <<241, 149>>, <<241, 160>>}
DidValue(k) ==
    CASE k = <<241, 135>> -> <<86, 49, 48>>      \* F187 "V10"
      [] k = <<241, 136>> -> <<69, 67, 85>>      \* F188 "ECU"
      [] k = <<241, 140>> -> <<66, 84, 49>>      \* F18C "BT1"
      [] k = <<241, 137>> -> <<72, 87, 49>>      \* F189 "HW1"
      [] k = <<241, 149>> -> <<83, 85, 80>>      \* F195 "SUP"
      [] k = <<241, 160>> -> <<88, 49>>          \* F1A0 "X1"

\* the payload _send_nrc passes to send_sf
Nrc(sid, nrc) == <<127, sid, nrc>>

\* _sub_spr: (sub & 0x7F, (sub & 0x80) != 0)
SubSprNoSuppress(sub) == [sub |-> sub % 128, suppress |-> FALSE]
SubSpr(sub) == [sub |-> sub % 128, suppress |-> sub >= 128]

\* sub = uds[1] of the services that compare the byte as it is
RawSubMasked(sub) == sub % 128
RawSub(sub) == sub

Res(out, sleep, seed, unl) ==
    [out |-> out, sleep |-> sleep, seed |-> seed, unlocked |-> unl]

\* the positive reply, sent "if not suppress"
Positive(suppress, payload) == IF suppress THEN <<>> ELSE <<payload>>

\* 0x10 DiagnosticSessionControl, up to time.sleep
SessionControl(u, seed, unl) ==
    IF Len(u) < 2 THEN Res(<<Nrc(16, 17)>>, FALSE, seed, unl)
    ELSE LET sp == SubSpr(u[2])
         IN  IF sp.sub \in {1, 3}
             THEN IF sp.sub = 3
                  THEN Res(<<Nrc(16, 120)>>, TRUE, seed, unl)
                  ELSE Res(Positive(sp.suppress, <<80, sp.sub>>), FALSE, seed, unl)
             ELSE Res(<<Nrc(16, 18)>>, FALSE, seed, unl)

\* 0x10 DiagnosticSessionControl sub 3, after time.sleep
SessionControlFinalAlways(u) ==
    LET sp == SubSpr(u[2]) IN <<(<<80, sp.sub>>)>>
SessionControlFinal(u) ==
    LET sp == SubSpr(u[2]) IN Positive(sp.suppress, <<80, sp.sub>>)

\* 0x11 ECUReset
ECUReset(u, seed, unl) ==
    IF Len(u) < 2 THEN Res(<<Nrc(17, 17)>>, FALSE, seed, unl)
    ELSE LET sp == SubSpr(u[2])
         IN  IF sp.sub \in {1, 3}
             THEN Res(Positive(sp.suppress, <<81, sp.sub>>), FALSE, seed, unl)
             ELSE Res(<<Nrc(17, 18)>>, FALSE, seed, unl)

\* 0x22 ReadDataByIdentifier
ReadDataByIdentifierLowOnly(u, seed, unl) ==
    IF Len(u) < 3 THEN Res(<<Nrc(34, 17)>>, FALSE, seed, unl)
    ELSE LET k == <<241, u[3]>>
         IN  IF k \in DidKeys /\ Len(DidValue(k)) <= 4
             THEN Res(<<(<<98, u[2], u[3]>> \o DidValue(k))>>, FALSE, seed, unl)
             ELSE Res(<<Nrc(34, 49)>>, FALSE, seed, unl)
ReadDataByIdentifier(u, seed, unl) ==
    IF Len(u) < 3 THEN Res(<<Nrc(34, 17)>>, FALSE, seed, unl)
    ELSE LET k == <<u[2], u[3]>>
         IN  IF k \in DidKeys /\ Len(DidValue(k)) <= 4
             THEN Res(<<(<<98, u[2], u[3]>> \o DidValue(k))>>, FALSE, seed, unl)
             ELSE Res(<<Nrc(34, 49)>>, FALSE, seed, unl)

\* ((self._last_seed or 0) + 1) & 0xFFFF
ExpectedKeyNoWrap(seed) == (IF seed = <<>> THEN 0 ELSE seed[1]) + 1
ExpectedKey(seed) == ((IF seed = <<>> THEN 0 ELSE seed[1]) + 1) % 65536

\* 0x27 SecurityAccess; rnd is the value random.randint(0, 0xFFFF) returns
SecurityAccessConsumesSeed(u, seed, unl, rnd) ==
    IF Len(u) < 2 THEN Res(<<Nrc(39, 17)>>, FALSE, seed, unl)
    ELSE LET sub == RawSub(u[2])
         IN  IF sub = 1
             THEN Res(<<(<<103, 1, (rnd \div 256) % 256, rnd % 256>>)>>,
                      FALSE, <<rnd>>, unl)
             ELSE IF sub = 2
             THEN IF Len(u) < 4 THEN Res(<<Nrc(39, 17)>>, FALSE, seed, unl)
                  ELSE LET key == u[3] * 256 + u[4]
                       IN  IF key = ExpectedKey(seed)
                           THEN Res(<<(<<103, 2>>)>>, FALSE, <<>>, TRUE)
                           ELSE Res(<<Nrc(39, 53)>>, FALSE, <<>>, FALSE)
             ELSE Res(<<Nrc(39, 18)>>, FALSE, seed, unl)
SecurityAccessSeedRelocks(u, seed, unl, rnd) ==
    IF Len(u) < 2 THEN Res(<<Nrc(39, 17)>>, FALSE, seed, unl)
    ELSE LET sub == RawSub(u[2])
         IN  IF sub = 1
             THEN Res(<<(<<103, 1, (rnd \div 256) % 256, rnd % 256>>)>>,
                      FALSE, <<rnd>>, FALSE)
             ELSE IF sub = 2
             THEN IF Len(u) < 4 THEN Res(<<Nrc(39, 17)>>, FALSE, seed, unl)
                  ELSE LET key == u[3] * 256 + u[4]
                       IN  IF key = ExpectedKey(seed)
                           THEN Res(<<(<<103, 2>>)>>, FALSE, seed, TRUE)
                           ELSE Res(<<Nrc(39, 53)>>, FALSE, seed, FALSE)
             ELSE Res(<<Nrc(39, 18)>>, FALSE, seed, unl)
SecurityAccess(u, seed, unl, rnd) ==
    IF Len(u) < 2 THEN Res(<<Nrc(39, 17)>>, FALSE, seed, unl)
    ELSE LET sub == RawSub(u[2])
         IN  IF sub = 1
             THEN Res(<<(<<103, 1, (rnd \div 256) % 256, rnd % 256>>)>>,
                      FALSE, <<rnd>>, unl)
             ELSE IF sub = 2
             THEN IF Len(u) < 4 THEN Res(<<Nrc(39, 17)>>, FALSE, seed, unl)
                  ELSE LET key == u[3] * 256 + u[4]
                       IN  IF key = ExpectedKey(seed)
                           THEN Res(<<(<<103, 2>>)>>, FALSE, seed, TRUE)
                           ELSE Res(<<Nrc(39, 53)>>, FALSE, seed, FALSE)
             ELSE Res(<<Nrc(39, 18)>>, FALSE, seed, unl)

\* 0x19 ReadDTCInformation
ReadDTCInformation(u, seed, unl) ==
    IF Len(u) < 2 THEN Res(<<Nrc(25, 17)>>, FALSE, seed, unl)
    ELSE LET sub == RawSub(u[2])
         IN  IF sub = 2
             THEN Res(<<(<<89, 2, 18, 52, 86, 0>>)>>, FALSE, seed, unl)
             ELSE Res(<<Nrc(25, 18)>>, FALSE, seed, unl)

\* 0x31 RoutineControl
RoutineControlLengthFirst(u, seed, unl) ==
    IF Len(u) < 4 THEN Res(<<Nrc(49, 17)>>, FALSE, seed, unl)
    ELSE IF u[2] = 1
         THEN IF u[3] * 256 + u[4] = 65280
              THEN Res(<<(<<113, 1, u[3], u[4], 0>>)>>, FALSE, seed, unl)
              ELSE Res(<<Nrc(49, 49)>>, FALSE, seed, unl)
         ELSE Res(<<Nrc(49, 18)>>, FALSE, seed, unl)
RoutineControl(u, seed, unl) ==
    IF Len(u) < 2 THEN Res(<<Nrc(49, 17)>>, FALSE, seed, unl)
    ELSE LET sub == RawSub(u[2])
         IN  IF sub = 1
             THEN IF Len(u) < 4 THEN Res(<<Nrc(49, 17)>>, FALSE, seed, unl)
                  ELSE LET rid == u[3] * 256 + u[4]
                       IN  IF rid = 65280
                           THEN Res(<<(<<113, 1, u[3], u[4], 0>>)>>, FALSE, seed, unl)
                           ELSE Res(<<Nrc(49, 49)>>, FALSE, seed, unl)
             ELSE Res(<<Nrc(49, 18)>>, FALSE, seed, unl)

\* 0x3E TesterPresent
TesterPresentAlways(u, seed, unl) ==
    Res(<<(<<126, (IF Len(u) >= 2 THEN u[2] ELSE 0) % 128>>)>>, FALSE, seed, unl)
TesterPresent(u, seed, unl) ==
    LET sp == SubSpr(IF Len(u) >= 2 THEN u[2] ELSE 0)
    IN  Res(Positive(sp.suppress, <<126, sp.sub>>), FALSE, seed, unl)

\* 0x85 ControlDTCSetting
ControlDTCSetting(u, seed, unl) ==
    IF Len(u) < 2 THEN Res(<<Nrc(133, 17)>>, FALSE, seed, unl)
    ELSE LET sp == SubSpr(u[2])
         IN  IF sp.sub \in {1, 2}
             THEN Res(Positive(sp.suppress, <<197, sp.sub>>), FALSE, seed, unl)
             ELSE Res(<<Nrc(133, 18)>>, FALSE, seed, unl)

\* "Service not supported": the final else of run
UnknownServiceOtherCode(sid, seed, unl) == Res(<<Nrc(sid, 19)>>, FALSE, seed, unl)
UnknownService(sid, seed, unl) == Res(<<Nrc(sid, 17)>>, FALSE, seed, unl)

\* the if / elif chain on sid = uds[0]
Dispatch(u, seed, unl, rnd) ==
    LET sid == u[1]
    IN  CASE sid = 16  -> SessionControl(u, seed, unl)
          [] sid = 17  -> ECUReset(u, seed, unl)
          [] sid = 34  -> ReadDataByIdentifier(u, seed, unl)
          [] sid = 39  -> SecurityAccess(u, seed, unl, rnd)
          [] sid = 25  -> ReadDTCInformation(u, seed, unl)
          [] sid = 49  -> RoutineControl(u, seed, unl)
          [] sid = 62  -> TesterPresent(u, seed, unl)
          [] sid = 133 -> ControlDTCSetting(u, seed, unl)
          [] OTHER     -> UnknownService(sid, seed, unl)

\* The highest position of uds, counted from 1, that the iteration serving
\* u reads: uds[0] always, further bytes behind the length tests of the
\* handlers.  A read past the end of uds raises IndexError.
ReadsUpToUnguardedMask(u) ==
    LET sid == u[1]
        n == Len(u)
    IN  CASE sid \in {16, 17, 133} -> IF n < 2 THEN 1 ELSE 2
          [] sid = 34 -> IF n < 3 THEN 1 ELSE 3
          [] sid = 39 -> IF n < 2 THEN 1
                         ELSE IF u[2] = 2 /\ n >= 4 THEN 4 ELSE 2
          [] sid = 25 -> IF n < 2 THEN 1
                         ELSE IF u[2] = 2 THEN 3 ELSE 2
          [] sid = 49 -> IF n < 2 THEN 1
                         ELSE IF u[2] = 1 /\ n >= 4 THEN 4 ELSE 2
          [] sid = 62 -> IF n >= 2 THEN 2 ELSE 1
          [] OTHER    -> 1
ReadsUpTo(u) ==
    LET sid == u[1]
        n == Len(u)
    IN  CASE sid \in {16, 17, 133} -> IF n < 2 THEN 1 ELSE 2
          [] sid = 34 -> IF n < 3 THEN 1 ELSE 3
          [] sid = 39 -> IF n < 2 THEN 1
                         ELSE IF u[2] = 2 /\ n >= 4 THEN 4 ELSE 2
          [] sid = 25 -> IF n < 2 THEN 1
                         ELSE IF u[2] = 2 /\ n >= 3 THEN 3 ELSE 2
          [] sid = 49 -> IF n < 2 THEN 1
                         ELSE IF u[2] = 1 /\ n >= 4 THEN 4 ELSE 2
          [] sid = 62 -> IF n >= 2 THEN 2 ELSE 1
          [] OTHER    -> 1

\* every payload of out encoded and sent at res_id, in order
ReplyFrames(out) == [i \in 1..Len(out) |-> Frame(RES_ID, MakeSF(out[i]))]

---------------------------------------------------------------------------
(* Inputs                                                                  *)

\* values random.randint(0, 0xFFFF) may return
Seeds == {0, 255, 4660, 65534, 65535}

\* 16-bit keys the tool sends: the successors of the seeds and others
Keys == {0, 1, 256, 4661, 65535}

Hi(w) == (w \div 256) % 256
Lo(w) == w % 256

\* payloads handed to UDSClientSF.send
Requests ==
    {<<>>, <<1, 2, 3, 4, 5, 6, 7, 8>>, <<62, 0, 0, 0, 0, 0, 0, 0, 255>>}
    \cup {<<62, 0, 255, 0, 0>>, <<133, 1, 0, 0, 7, 0>>, <<62, 5, 1, 2, 3, 4, 255>>}
    \cup {<<16>>, <<16, 1>>, <<16, 3>>, <<16, 2>>, <<16, 129>>, <<16, 131>>,
          <<16, 133>>}
    \cup {<<17>>, <<17, 1>>, <<17, 131>>, <<17, 5>>}
    \cup {<<34>>, <<34, 241>>, <<34, 241, 135>>, <<34, 241, 160>>,
          <<34, 241, 255>>}
    \cup {<<34, 241, 136>>, <<34, 241, 137>>, <<34, 241, 140>>, <<34, 241, 149>>,
          <<34, 0, 135>>, <<34, 135, 241>>, <<34, 240, 135>>}
    \cup {<<39>>, <<39, 1>>, <<39, 129>>, <<39, 2>>, <<39, 2, 0>>, <<39, 3>>,
          <<39, 130>>, <<39, 130, 0>>}
    \cup {<<39, 2, Hi(k), Lo(k)>> : k \in Keys}
    \cup {<<39, 130, Hi(k), Lo(k)>> : k \in Keys}
    \cup {<<25>>, <<25, 2>>, <<25, 2, 255>>, <<25, 130, 255>>, <<25, 1>>}
    \cup {<<49>>, <<49, 1>>, <<49, 1, 255>>, <<49, 1, 255, 0>>,
          <<49, 1, 255, 1>>, <<49, 129, 255, 0>>, <<49, 2>>, <<49, 2, 255>>,
          <<49, 2, 255, 0>>}
    \cup {<<49, 1, 0, 255>>, <<49, 1, 0, 0>>, <<49, 1, 254, 0>>}
    \cup {<<62>>, <<62, 0>>, <<62, 128>>, <<62, 5>>}
    \cup {<<133>>, <<133, 1>>, <<133, 2>>, <<133, 130>>, <<133, 3>>}
    \cup {<<0>>, <<40, 1>>, <<127, 16, 120>>, <<255>>}

---------------------------------------------------------------------------
(* State                                                                   *)

NoResult == [kind |-> "none", pl |-> <<>>]
TimeoutError == [kind |-> "TimeoutError", pl |-> <<>>]
ValueError == [kind |-> "ValueError", pl |-> <<>>]
Returned(pl) == [kind |-> "payload", pl |-> pl]

Init ==
    /\ cliPc = "idle"
    /\ cliReq = <<>>
    /\ cliResult = NoResult
    /\ cliTimeout \in {DefaultTimeout, MainTimeout}
    /\ cliElapsed = 0
    /\ sinceSend = 0
    /\ atSend = [seed |-> <<>>, unlocked |-> FALSE, alone |-> TRUE]
    /\ last_interim = <<>>
    /\ cliQ = <<>>
    /\ ecuQ = <<>>
    /\ ecuPc = "top"
    /\ running = TRUE
    /\ uds = <<>>
    /\ ecuSlept = 0
    /\ last_seed = <<>>
    /\ unlocked = FALSE
    /\ ecuTx = <<>>

---------------------------------------------------------------------------
(* UDSClientSF.send                                                        *)

\* len(pl) >= 3 and pl[0] == 0x7F and pl[2] == 0x78
IsInterimNever(pl) == FALSE
IsInterimSession(pl) == Len(pl) >= 3 /\ pl[1] = 127 /\ pl[2] = 16 /\ pl[3] = 120
IsInterim(pl) == Len(pl) >= 3 /\ pl[1] = 127 /\ pl[3] = 120

\* r.arbitration_id == self.res_id
FromAnyId(r) == TRUE
FromResId(r) == r.id = RES_ID

\* the value of time.time() - start after an interim reply
ElapsedReset(e) == 0
ElapsedAfterInterim(e) == e

\* A thread has a step to take that takes no time.  The console reads its
\* next command only after these steps: typing takes time, they take none.
Urgent ==
    \/ cliPc = "loop"
    \/ cliPc = "recv" /\ cliQ /= <<>>
    \/ ecuPc = "top"
    \/ ecuPc = "recv" /\ ecuQ /= <<>>
    \/ ecuPc = "sleep" /\ ecuSlept = PendingDelay

\* make the frame, bus.send, start = time.time(), last_interim = None
CliSend(payload) ==
    /\ cliPc = "idle"
    /\ ~Urgent
    /\ Len(cliQ) <= MaxStale
    /\ Len(ecuQ) < MaxPending
    /\ cliReq' = payload
    /\ IF CanEncode(payload)
       THEN /\ ecuQ' = Append(ecuQ, Frame(REQ_ID, MakeSF(payload)))
            /\ cliPc' = "loop"
            /\ cliResult' = NoResult
            /\ cliElapsed' = 0
            /\ sinceSend' = 0
            /\ atSend' = [seed |-> last_seed, unlocked |-> unlocked,
                           alone |-> ecuQ = <<>>]
            /\ last_interim' = <<>>
       ELSE /\ cliResult' = ValueError
            /\ UNCHANGED <<ecuQ, cliPc, cliElapsed, sinceSend, atSend, last_interim>>
    /\ UNCHANGED <<cliTimeout, cliQ>>
    /\ UNCHANGED ecuVars

\* while time.time() - start < self.timeout: ... raise TimeoutError
CliLoop ==
    /\ cliPc = "loop"
    /\ IF cliElapsed < cliTimeout
       THEN cliPc' = "recv" /\ UNCHANGED cliResult
       ELSE cliPc' = "idle" /\ cliResult' = TimeoutError
    /\ UNCHANGED <<cliReq, cliTimeout, cliElapsed, sinceSend, atSend, last_interim,
                   cliQ, ecuQ>>
    /\ UNCHANGED ecuVars

\* r = self.bus.recv(timeout=0.05) returns a frame; the body of the loop
CliRecv ==
    /\ cliPc = "recv"
    /\ cliQ /= <<>>
    /\ LET r == Head(cliQ)
           pl == ParseSF(r.data)
       IN  /\ cliQ' = Tail(cliQ)
           /\ IF FromResId(r)
              THEN IF IsInterim(pl)
                   THEN /\ last_interim' = pl      \* show_interim is True
                        /\ cliElapsed' = ElapsedAfterInterim(cliElapsed)
                        /\ cliPc' = "loop"
                        /\ UNCHANGED cliResult
                   ELSE /\ cliResult' = Returned(pl)
                        /\ cliPc' = "idle"
                        /\ UNCHANGED <<last_interim, cliElapsed>>
              ELSE /\ cliPc' = "loop"
                   /\ UNCHANGED <<cliResult, last_interim, cliElapsed>>
    /\ UNCHANGED <<cliReq, cliTimeout, sinceSend, atSend, ecuQ>>
    /\ UNCHANGED ecuVars

\* main's finally: ecu.stop(); the REPL is left and sends nothing more
Stop ==
    /\ cliPc /= "exit"
    /\ cliPc' = "exit"
    /\ running' = FALSE
    /\ UNCHANGED <<cliReq, cliResult, cliTimeout, cliElapsed, sinceSend, atSend,
                   last_interim, cliQ, ecuQ>>
    /\ UNCHANGED <<ecuPc, uds, ecuSlept, last_seed, unlocked, ecuTx>>

---------------------------------------------------------------------------
(* MiniECUStub.run                                                         *)

\* while self._running: the next iteration starts (its uds is not read
\* before it is assigned again) or the worker ends
EcuTop ==
    /\ ecuPc = "top"
    /\ ecuPc' = IF running THEN "recv" ELSE "stopped"
    /\ uds' = <<>>
    /\ ecuTx' = <<>>
    /\ ecuSlept' = 0
    /\ UNCHANGED <<running, last_seed, unlocked>>
    /\ UNCHANGED <<cliQ, ecuQ>>
    /\ UNCHANGED cliVars

\* msg = self.bus.recv(timeout=0.1) returns None: continue.  While _running
\* holds this leads back to the same recv, so the step is taken only once
\* stop was called; the poll's phase is not tracked and it may expire at
\* any moment the queue is empty.
EcuRecvNone ==
    /\ ecuPc = "recv"
    /\ ecuQ = <<>>
    /\ ~running
    /\ ecuPc' = "top"
    /\ UNCHANGED <<running, uds, ecuSlept, last_seed, unlocked, ecuTx>>
    /\ UNCHANGED <<cliQ, ecuQ>>
    /\ UNCHANGED cliVars

\* msg.arbitration_id != self.cfg.req_id or len(msg.data) == 0
DiscardedAnyId(msg) == Len(msg.data) = 0
Discarded(msg) == msg.id /= REQ_ID \/ Len(msg.data) = 0

\* bus.recv returns a frame: one iteration of run, up to its end or up to
\* time.sleep.  An IndexError of a handler or a ValueError of send_sf is not
\* caught anywhere: it ends the thread.
EcuRecv ==
    /\ ecuPc = "recv"
    /\ ecuQ /= <<>>
    /\ ecuQ' = Tail(ecuQ)
    /\ LET msg == Head(ecuQ)
       IN  IF Discarded(msg)
           THEN /\ ecuPc' = "top"
                /\ UNCHANGED <<uds, ecuSlept, last_seed, unlocked, ecuTx, cliQ>>
           ELSE IF ParseSF(msg.data) = <<>>
           THEN /\ uds' = <<>>
                /\ ecuPc' = "top"
                /\ UNCHANGED <<ecuSlept, last_seed, unlocked, ecuTx, cliQ>>
           ELSE IF ReadsUpTo(ParseSF(msg.data)) > Len(ParseSF(msg.data))
           THEN /\ uds' = ParseSF(msg.data)
                /\ ecuPc' = "crashed"
                /\ UNCHANGED <<ecuSlept, last_seed, unlocked, ecuTx, cliQ>>
           ELSE \E rnd \in Seeds :
                LET u == ParseSF(msg.data)
                    r == Dispatch(u, last_seed, unlocked, rnd)
                IN  \* random.randint is called by the seed request only
                    /\ (u[1] /= 39 \/ Len(u) < 2 \/ u[2] /= 1) => rnd = 0
                    /\ IF \E i \in 1..Len(r.out) : ~CanEncode(r.out[i])
                       THEN /\ uds' = u
                            /\ ecuPc' = "crashed"
                            /\ last_seed' = r.seed
                            /\ unlocked' = r.unlocked
                            /\ UNCHANGED <<ecuSlept, ecuTx, cliQ>>
                       ELSE /\ uds' = u
                            /\ ecuTx' = r.out
                            /\ cliQ' = cliQ \o ReplyFrames(r.out)
                            /\ last_seed' = r.seed
                            /\ unlocked' = r.unlocked
                            /\ UNCHANGED ecuSlept
                            /\ ecuPc' = IF r.sleep THEN "sleep" ELSE "top"
    /\ UNCHANGED running
    /\ UNCHANGED cliVars

\* time.sleep(0.15) returns: the positive reply of 0x10 sub 3
EcuWakeAbortOnStop ==
    /\ ecuPc = "sleep"
    /\ ecuSlept = PendingDelay
    /\ LET out == IF running THEN SessionControlFinal(uds) ELSE <<>>
       IN  /\ ecuTx' = ecuTx \o out
           /\ cliQ' = cliQ \o ReplyFrames(out)
    /\ ecuPc' = "top"
    /\ UNCHANGED <<running, uds, ecuSlept, last_seed, unlocked, ecuQ>>
    /\ UNCHANGED cliVars
EcuWake ==
    /\ ecuPc = "sleep"
    /\ ecuSlept = PendingDelay
    /\ LET out == SessionControlFinal(uds)
       IN  /\ ecuTx' = ecuTx \o out
           /\ cliQ' = cliQ \o ReplyFrames(out)
    /\ ecuPc' = "top"
    /\ UNCHANGED <<running, uds, ecuSlept, last_seed, unlocked, ecuQ>>
    /\ UNCHANGED cliVars

---------------------------------------------------------------------------
(* The shared bus                                                          *)

\* an address that is neither req_id nor res_id
OTHER_ID == RES_ID + 1

\* frames of other nodes, as the client's bus.recv returns them
ForeignFrames ==
    {Frame(RES_ID, MakeSF(<<127, 16, 120>>)),
     Frame(RES_ID, MakeSF(<<127, 34, 120>>)),
     Frame(RES_ID, MakeSF(<<127, 39, 120, 9>>)),
     Frame(RES_ID, <<19, 127, 17, 120>>),
     Frame(RES_ID, <<3, 127, 16>>),
     Frame(RES_ID, <<>>),
     Frame(RES_ID, <<0, 80, 3, 0, 0, 0, 0, 0>>),
     Frame(RES_ID, MakeSF(<<98, 241, 135, 86>>)),
     Frame(OTHER_ID, MakeSF(<<80, 3>>)),
     Frame(OTHER_ID, MakeSF(<<127, 16, 120>>)),
     Frame(REQ_ID, MakeSF(<<16, 1>>))}

\* a frame of another node reaches the client's node during a transaction
BusToClient(f) ==
    /\ cliPc \in {"loop", "recv"}
    /\ Len(cliQ) < MaxForeign
    /\ cliQ' = Append(cliQ, f)
    /\ UNCHANGED ecuQ
    /\ UNCHANGED cliVars
    /\ UNCHANGED ecuVars

\* frames of other nodes, as the ECU's bus.recv returns them: other
\* addresses, empty bodies, and length nibbles of 0, above the bytes that
\* follow, and with the upper nibble set
EcuForeignFrames ==
    {Frame(OTHER_ID, MakeSF(<<39, 1>>)),
     Frame(REQ_ID, <<>>),
     Frame(REQ_ID, <<0, 39, 1, 0, 0, 0, 0, 0>>),
     Frame(REQ_ID, <<3>>),
     Frame(REQ_ID, <<15, 39, 2, 0>>),
     Frame(REQ_ID, <<4, 49, 1, 255>>),
     Frame(REQ_ID, <<3, 25, 2>>),
     Frame(REQ_ID, <<1, 62>>),
     Frame(REQ_ID, <<35, 34, 241, 135>>)}

\* a frame of another node reaches the ECU's node
BusToEcu(f) ==
    /\ cliPc /= "exit"
    /\ Len(ecuQ) < MaxBus
    /\ cliQ = <<>>
    /\ ecuQ' = Append(ecuQ, f)
    /\ UNCHANGED cliQ
    /\ UNCHANGED cliVars
    /\ UNCHANGED ecuVars

---------------------------------------------------------------------------
(* Time                                                                    *)

\* 50 ms pass: the client's bus.recv(timeout=0.05) returns None and the
\* loop condition is evaluated again; the ECU's time.sleep goes on
Tick ==
    /\ ~Urgent
    /\ cliPc = "recv" \/ ecuPc = "sleep"
    /\ IF cliPc = "recv"
       THEN /\ cliPc' = "loop"
            /\ cliElapsed' = Min(cliElapsed + 1, cliTimeout)
            /\ sinceSend' = sinceSend + 1
       ELSE UNCHANGED <<cliPc, cliElapsed, sinceSend>>
    /\ ecuSlept' = IF ecuPc = "sleep" THEN ecuSlept + 1 ELSE ecuSlept
    /\ UNCHANGED <<cliReq, cliResult, cliTimeout, atSend, last_interim, cliQ, ecuQ>>
    /\ UNCHANGED <<ecuPc, running, uds, last_seed, unlocked, ecuTx>>

---------------------------------------------------------------------------
(* Specifications                                                          *)

\* the program as main starts it: the deadline stays the configured default
Next ==
    \/ \E p \in Requests : CliSend(p)
    \/ CliLoop
    \/ CliRecv
    \/ Stop
    \/ EcuTop
    \/ EcuRecvNone
    \/ EcuRecv
    \/ EcuWake
    \/ Tick

Spec == Init /\ [][Next]_vars

\* The bus is shared: while a transaction runs, other nodes send frames
\* that the client's node receives.  The deadline is configured shorter
\* (100 ms) or longer (200 ms) than the ECU's delay of 150 ms.
EnvTimeouts == {2, 4}

EnvRequests == {<<16, 1>>, <<16, 3>>, <<34, 241, 135>>, <<62, 128>>}

InitEnv ==
    /\ cliPc = "idle"
    /\ cliReq = <<>>
    /\ cliResult = NoResult
    /\ cliTimeout \in EnvTimeouts
    /\ cliElapsed = 0
    /\ sinceSend = 0
    /\ atSend = [seed |-> <<>>, unlocked |-> FALSE, alone |-> TRUE]
    /\ last_interim = <<>>
    /\ cliQ = <<>>
    /\ ecuQ = <<>>
    /\ ecuPc = "top"
    /\ running = TRUE
    /\ uds = <<>>
    /\ ecuSlept = 0
    /\ last_seed = <<>>
    /\ unlocked = FALSE
    /\ ecuTx = <<>>

NextEnv ==
    \/ \E p \in EnvRequests : CliSend(p)
    \/ CliLoop
    \/ CliRecv
    \/ Stop
    \/ EcuTop
    \/ EcuRecvNone
    \/ EcuRecv
    \/ EcuWake
    \/ Tick
    \/ \E f \in ForeignFrames : BusToClient(f)

SpecEnv == InitEnv /\ [][NextEnv]_vars

\* The threads are scheduled and time passes: a step of the ECU thread that
\* stays possible is taken, and so is the passing of 50 ms.
SpecFair ==
    /\ Init /\ [][Next]_vars
    /\ WF_vars(EcuTop)
    /\ WF_vars(EcuRecvNone)
    /\ WF_vars(EcuRecv)
    /\ WF_vars(EcuWake)
    /\ WF_vars(Tick)

\* The client's thread is scheduled as well.
SpecLive ==
    /\ SpecFair
    /\ WF_vars(CliLoop)
    /\ WF_vars(CliRecv)

\* The deadline is configured to 0 (the command "timeout 0") or to 100 ms,
\* shorter than the ECU's delay; no other node sends.
ShortTimeouts == {0, 2}

ShortRequests ==
    {<<16, 3>>, <<34, 241, 135>>, <<62, 128>>, <<39, 1>>, <<39, 129>>,
     <<39, 2, 0, 1>>, <<39, 2, 18, 53>>}

InitShort ==
    /\ cliPc = "idle"
    /\ cliReq = <<>>
    /\ cliResult = NoResult
    /\ cliTimeout \in ShortTimeouts
    /\ cliElapsed = 0
    /\ sinceSend = 0
    /\ atSend = [seed |-> <<>>, unlocked |-> FALSE, alone |-> TRUE]
    /\ last_interim = <<>>
    /\ cliQ = <<>>
    /\ ecuQ = <<>>
    /\ ecuPc = "top"
    /\ running = TRUE
    /\ uds = <<>>
    /\ ecuSlept = 0
    /\ last_seed = <<>>
    /\ unlocked = FALSE
    /\ ecuTx = <<>>

NextShort ==
    \/ \E p \in ShortRequests : CliSend(p)
    \/ CliLoop
    \/ CliRecv
    \/ Stop
    \/ EcuTop
    \/ EcuRecvNone
    \/ EcuRecv
    \/ EcuWake
    \/ Tick

SpecShort == InitShort /\ [][NextShort]_vars

\* Other nodes send frames that the ECU's node receives.
BusRequests == {<<16, 3>>, <<39, 1>>}

NextBus ==
    \/ \E p \in BusRequests : CliSend(p)
    \/ CliLoop
    \/ CliRecv
    \/ Stop
    \/ EcuTop
    \/ EcuRecvNone
    \/ EcuRecv
    \/ EcuWake
    \/ Tick
    \/ \E f \in EcuForeignFrames : BusToEcu(f)

SpecBus == InitEnv /\ [][NextBus]_vars

---------------------------------------------------------------------------
(* Properties                                                              *)

\* the iteration of run that served uds has ended
Served == ecuPc = "top" /\ uds /= <<>>

\* the send call for cliReq has returned or raised
Ended == cliPc = "idle" /\ cliResult.kind /= "none"

\* C1: for the request [0x10, 0x03] under the default deadline the unit
\* sends the interim reply [0x7F, 0x10, 0x78] alone, sleeps the fixed delay,
\* and then sends [0x50, 0x03], and nothing else; send returns [0x50, 0x03],
\* having seen the interim reply, no earlier than the delay after the
\* request.
C1_ExtendedSession ==
    /\ (ecuPc = "sleep" /\ uds = <<16, 3>>) =>
           (ecuTx = <<(<<127, 16, 120>>)>> /\ ecuSlept <= PendingDelay)
    /\ (Served /\ uds = <<16, 3>>) =>
           (ecuTx = <<(<<127, 16, 120>>), (<<80, 3>>)>> /\ ecuSlept = PendingDelay)
    /\ (Ended /\ cliReq = <<16, 3>>) =>
           /\ cliResult = [kind |-> "payload", pl |-> <<80, 3>>]
           /\ last_interim = <<127, 16, 120>>
           /\ sinceSend >= PendingDelay

C1_Witness ==
    /\ Ended
    /\ cliReq = <<16, 3>>
    /\ cliResult = [kind |-> "payload", pl |-> <<80, 3>>]
    /\ cliTimeout = DefaultTimeout

\* C2: with a stored seed s, a send-key request [0x27, 0x02, kHi, kLo] is
\* answered [0x67, 0x02] and leaves the unit unlocked if k = (s + 1) mod
\* 65536, and is answered [0x7F, 0x27, 0x35] and leaves it locked otherwise,
\* whatever unlocked was before.
C2_KeyCheck ==
    (Served /\ Len(uds) >= 4 /\ uds[1] = 39 /\ uds[2] = 2 /\ last_seed /= <<>>) =>
        LET k == uds[3] * 256 + uds[4]
            s == last_seed[1]
        IN  IF k = (s + 1) % 65536
            THEN ecuTx = <<(<<103, 2>>)>> /\ unlocked
            ELSE ecuTx = <<(<<127, 39, 53>>)>> /\ ~unlocked

C2_Witness ==
    /\ Served
    /\ uds = <<39, 2, 0, 0>>
    /\ last_seed = <<65535>>
    /\ ecuTx = <<(<<103, 2>>)>>
    /\ unlocked

\* a payload of the shape 0x7F, any service id, 0x78
PendingShape(pl) == Len(pl) >= 3 /\ pl[1] = 127 /\ pl[3] = 120

\* the client takes the frame at the head of its queue
Takes == cliPc = "recv" /\ cliQ /= <<>> /\ cliQ' = Tail(cliQ)

\* C3: send never returns a payload of length >= 3 with first byte 0x7F and
\* third byte 0x78, whatever its second byte; taking such a frame at the
\* response address leaves the call without a result and back at its loop.
C3_InterimNotReturned ==
    [][/\ cliResult'.kind = "payload" => ~PendingShape(cliResult'.pl)
       /\ (Takes /\ Head(cliQ).id = RES_ID /\ PendingShape(ParseSF(Head(cliQ).data)))
              => (cliPc' = "loop" /\ cliResult' = cliResult /\ cliResult.kind = "none")
      ]_vars

C3_Witness ==
    /\ cliPc = "loop"
    /\ last_interim = <<127, 34, 120>>
    /\ cliReq = <<16, 3>>

\* C4: the deadline runs from the moment the request is sent and no frame
\* moves it: a send call is never waiting later than cliTimeout after its
\* request, it raises TimeoutError exactly when cliTimeout has passed since
\* the request, and a payload is returned only before that.
C4_DeadlineFixed ==
    /\ cliPc = "loop" => sinceSend <= cliTimeout
    /\ cliPc = "recv" => sinceSend < cliTimeout
    /\ (Ended /\ cliResult.kind = "TimeoutError") => sinceSend = cliTimeout
    /\ (Ended /\ cliResult.kind = "payload") => sinceSend < cliTimeout

\* a call that timed out although interim replies were arriving, none of
\* them from the ECU (TesterPresent with the suppress bit gets no reply)
C4_Witness ==
    /\ Ended
    /\ cliResult.kind = "TimeoutError"
    /\ cliReq = <<62, 128>>
    /\ last_interim = <<127, 34, 120>>
    /\ cliTimeout = 4
    /\ sinceSend = 4

\* C5: for the request [0x3E, 0x80] the unit sends nothing, no frame
\* reaches the client while the call waits, and send raises TimeoutError.
C5_SuppressedTesterPresent ==
    /\ (Served /\ uds = <<62, 128>>) => ecuTx = <<>>
    /\ (cliReq = <<62, 128>> /\ cliPc \in {"loop", "recv"}) => cliQ = <<>>
    /\ (Ended /\ cliReq = <<62, 128>>) => cliResult.kind = "TimeoutError"

C5_Witness ==
    /\ Ended
    /\ cliReq = <<62, 128>>
    /\ cliResult.kind = "TimeoutError"
    /\ sinceSend = MainTimeout

\* the sub-functions a service accepts once bit 7 is cleared
MaskedSubs(sid) ==
    CASE sid = 16  -> {1, 3}
      [] sid = 17  -> {1, 3}
      [] sid = 133 -> {1, 2}
      [] sid = 62  -> 0..127

\* C6 as stated: in SecurityAccess, ReadDTCInformation and RoutineControl
\* too, a sub-function byte with bit 7 set is served as the sub-function
\* with bit 7 clear, and not answered [0x7F, sid, 0x12].
C6_MaskedEverywhere ==
    (Served /\ Len(uds) >= 2 /\ uds[1] \in {39, 25, 49} /\ uds[2] \in {129, 130}) =>
        ecuTx /= <<(<<127, uds[1], 18>>)>>

\* C6: bit 7 of the sub-function byte is cleared before the comparison in
\* SessionControl, Reset, TesterPresent and ControlDTCSetting only: there a
\* byte with bit 7 set is refused with [0x7F, sid, 0x12] exactly when the
\* byte with bit 7 clear is not a sub-function of the service.  In
\* SecurityAccess, ReadDTCInformation and RoutineControl the byte is
\* compared as it is, and every byte with bit 7 set is answered
\* [0x7F, sid, 0x12].
C6_MaskedInFourServices ==
    (Served /\ Len(uds) >= 2 /\ uds[2] >= 128) =>
        /\ uds[1] \in {39, 25, 49} => ecuTx = <<(<<127, uds[1], 18>>)>>
        /\ uds[1] \in {16, 17, 133, 62} =>
               IF uds[2] - 128 \in MaskedSubs(uds[1])
               THEN \A i \in 1..Len(ecuTx) : ecuTx[i] /= <<127, uds[1], 18>>
               ELSE ecuTx = <<(<<127, uds[1], 18>>)>>

C6_Witness ==
    /\ Served
    /\ uds = <<39, 130, 0, 1>>
    /\ ecuTx = <<(<<127, 39, 18>>)>>

\* run has just served the request uds'
Serves == ecuPc = "recv" /\ ecuPc' = "top" /\ uds' /= <<>>

\* the unit's expected key, (seed or 0) + 1 mod 65536
KeyFor(seed) == ((IF seed = <<>> THEN 0 ELSE seed[1]) + 1) % 65536

\* C7 as stated: [0x10, 0x83] gets the interim reply and the delay and no
\* [0x50, 0x03]; a send-key request with sub-function byte 0x82 sets
\* unlocked according to the key comparison; [0x10, 0x85] gets its negative
\* reply.
C7_SuppressedKeyCheck ==
    /\ (Served /\ uds = <<16, 131>>) =>
           (ecuTx = <<(<<127, 16, 120>>)>> /\ ecuSlept = PendingDelay)
    /\ (Served /\ Len(uds) >= 4 /\ uds[1] = 39 /\ uds[2] = 130) =>
           (unlocked <=> uds[3] * 256 + uds[4] = KeyFor(last_seed))
    /\ (Served /\ uds = <<16, 133>>) => ecuTx = <<(<<127, 16, 18>>)>>

\* C7: [0x10, 0x83] gets the interim reply and the delay and no
\* [0x50, 0x03], and [0x10, 0x85] gets its negative reply; a SecurityAccess
\* request with sub-function byte 0x82 is no send-key request: it is
\* answered [0x7F, 0x27, 0x12] and changes neither unlocked nor the seed.
C7_SuppressionWithholdsPositive ==
    [][/\ (Serves /\ uds' = <<16, 133>>) => ecuTx' = <<(<<127, 16, 18>>)>>
       /\ (ecuPc = "sleep" /\ ecuPc' = "top" /\ uds = <<16, 131>>) =>
              (ecuTx' = <<(<<127, 16, 120>>)>> /\ ecuSlept = PendingDelay)
       /\ (ecuPc' = "sleep" /\ uds' = <<16, 131>>) => ecuTx' = <<(<<127, 16, 120>>)>>
       /\ (Serves /\ Len(uds') >= 2 /\ uds'[1] = 39 /\ uds'[2] = 130) =>
              /\ ecuTx' = <<(<<127, 39, 18>>)>>
              /\ unlocked' = unlocked
              /\ last_seed' = last_seed
      ]_vars

\* 0x82 with the key that sub-function 2 would accept: still locked
C7_Witness ==
    /\ Served
    /\ uds = <<39, 130, 0, 1>>
    /\ last_seed = <<0>>
    /\ ecuTx = <<(<<127, 39, 18>>)>>
    /\ ~unlocked

\* C8 as stated: the payload send returns is never empty.
C8_NeverEmpty ==
    cliResult.kind = "payload" => cliResult.pl /= <<>>

\* C8: the payload send returns is the decoded segment of a frame at the
\* response address, also when that segment is empty (an empty body or a
\* length nibble 0 makes send return the empty payload); a frame from any
\* other address is taken off the queue and the call keeps waiting.
C8_ReturnsResponseSegment ==
    [][/\ (cliResult' /= cliResult /\ cliResult'.kind = "payload") =>
              /\ Takes
              /\ Head(cliQ).id = RES_ID
              /\ cliResult'.pl = ParseSF(Head(cliQ).data)
       /\ (Takes /\ Head(cliQ).id /= RES_ID) =>
              (cliPc' = "loop" /\ cliResult' = cliResult /\ cliResult.kind = "none")
       /\ (Takes /\ Head(cliQ).id = RES_ID
             /\ (Head(cliQ).data = <<>> \/ Head(cliQ).data[1] % 16 = 0)) =>
              (cliPc' = "idle" /\ cliResult' = [kind |-> "payload", pl |-> <<>>])
      ]_vars

C8_Witness ==
    /\ Ended
    /\ cliResult = [kind |-> "payload", pl |-> <<>>]
    /\ cliReq = <<62, 128>>

\* the minimum lengths of C9 as stated: 4 bytes for every RoutineControl
ShortAsStated(u) ==
    \/ u[1] \in {16, 17, 39, 25, 133} /\ Len(u) < 2
    \/ u[1] = 34 /\ Len(u) < 3
    \/ u[1] = 39 /\ Len(u) \in {2, 3} /\ u[2] = 2
    \/ u[1] = 49 /\ Len(u) < 4

\* the minimum lengths of the code: 4 bytes for RoutineControl only when
\* the sub-function byte is 0x01
ShortInCode(u) ==
    \/ u[1] \in {16, 17, 39, 25, 49, 133} /\ Len(u) < 2
    \/ u[1] = 34 /\ Len(u) < 3
    \/ u[1] = 39 /\ Len(u) \in {2, 3} /\ u[2] = 2
    \/ u[1] = 49 /\ Len(u) \in {2, 3} /\ u[2] = 1

\* C9 as stated: every request shorter than its service's minimum, 4 bytes
\* for RoutineControl whatever the sub-function byte, gets exactly
\* [0x7F, sid, 0x11] and leaves the seed and unlocked unchanged.
C9_LengthFirst ==
    [][(Serves /\ ShortAsStated(uds')) =>
           /\ ecuTx' = <<(<<127, uds'[1], 17>>)>>
           /\ unlocked' = unlocked
           /\ last_seed' = last_seed
      ]_vars

\* C9: a request shorter than its service's minimum gets exactly
\* [0x7F, sid, 0x11] and leaves the seed and unlocked unchanged, where
\* RoutineControl needs 2 bytes, and 4 bytes only when its sub-function byte
\* is 0x01: a RoutineControl request of 2 or 3 bytes with another
\* sub-function byte gets [0x7F, 0x31, 0x12].
C9_LengthPerSubFunction ==
    [][/\ (Serves /\ ShortInCode(uds')) =>
              /\ ecuTx' = <<(<<127, uds'[1], 17>>)>>
              /\ unlocked' = unlocked
              /\ last_seed' = last_seed
       /\ (Serves /\ uds'[1] = 49 /\ Len(uds') \in {2, 3} /\ uds'[2] /= 1) =>
              /\ ecuTx' = <<(<<127, 49, 18>>)>>
              /\ unlocked' = unlocked
              /\ last_seed' = last_seed
      ]_vars

\* a send-key request without its key bytes, on an unlocked unit
C9_Witness ==
    /\ Served
    /\ uds = <<39, 2, 0>>
    /\ ecuTx = <<(<<127, 39, 17>>)>>
    /\ unlocked
    /\ last_seed /= <<>>

\* C10: every payload the unit sends that starts with 0x7F is
\* [0x7F, s, c] with s the first byte of the request and c one of 0x11,
\* 0x12, 0x31, 0x35, 0x78; a request whose service id is not one of the
\* eight services gets exactly [0x7F, sid, 0x11].
C10_NegativeReplyShape ==
    /\ \A i \in 1..Len(ecuTx) :
           ecuTx[i][1] = 127 =>
               /\ Len(ecuTx[i]) = 3
               /\ uds /= <<>>
               /\ ecuTx[i][2] = uds[1]
               /\ ecuTx[i][3] \in {17, 18, 49, 53, 120}
    /\ (Served /\ uds[1] \notin {16, 17, 34, 39, 25, 49, 62, 133}) =>
           ecuTx = <<(<<127, uds[1], 17>>)>>

C10_Witness ==
    /\ Served
    /\ uds = <<127, 16, 120>>
    /\ ecuTx = <<(<<127, 127, 17>>)>>

\* C11: send with a payload longer than 7 bytes raises ValueError at once:
\* the call puts no frame on the bus, never enters its receive loop, and
\* takes no frame off the client's queue.
C11_TooLargeRejected ==
    [][/\ Len(cliReq') > 7 =>
              (cliResult'.kind = "ValueError" /\ cliPc' \notin {"loop", "recv"})
       /\ (Len(cliReq') > 7 /\ cliReq' /= cliReq) =>
              (ecuQ' = ecuQ /\ cliQ' = cliQ /\ cliPc' = cliPc)
       /\ \A i \in 1..Len(ecuQ') : Len(ecuQ'[i].data) = 8
      ]_vars

C11_Witness ==
    /\ cliReq = <<62, 0, 0, 0, 0, 0, 0, 0, 255>>
    /\ cliResult.kind = "ValueError"
    /\ cliPc = "idle"
    /\ ecuQ = <<>>
    /\ unlocked

\* C12: the frame send makes of a payload p of 0..7 bytes has an 8-byte
\* body: the byte len(p), then p, then zeros; decoding that body gives p
\* back, and p is the request the unit serves.
C12_RoundTrip ==
    /\ \A i \in 1..Len(ecuQ) :
           LET d == ecuQ[i].data
               n == Len(cliReq)
           IN  /\ n <= 7
               /\ Len(d) = 8
               /\ d[1] = n
               /\ \A j \in 1..n : d[j + 1] = cliReq[j]
               /\ \A j \in (n + 2)..8 : d[j] = 0
               /\ ParseSF(d) = cliReq
    /\ uds /= <<>> => uds = cliReq

C12_Witness ==
    /\ Served
    /\ uds = <<62, 5, 1, 2, 3, 4, 255>>
    /\ ecuTx = <<(<<126, 5>>)>>

\* C13: [0x22, hi, lo] is answered [0x62, hi, lo] and the value of the
\* identifier table when (hi, lo) is in the table, and [0x7F, 0x22, 0x31]
\* otherwise; [0x31, 0x01, rHi, rLo] is answered [0x71, 0x01, 0xFF, 0x00,
\* 0x00] for routine 0xFF00 and [0x7F, 0x31, 0x31] otherwise.
C13_LookupReplies ==
    /\ (Served /\ Len(uds) = 3 /\ uds[1] = 34) =>
           IF <<uds[2], uds[3]>> \in DidKeys
           THEN ecuTx = <<(<<98, uds[2], uds[3]>> \o DidValue(<<uds[2], uds[3]>>))>>
           ELSE ecuTx = <<(<<127, 34, 49>>)>>
    /\ (Served /\ Len(uds) = 4 /\ uds[1] = 49 /\ uds[2] = 1) =>
           IF uds[3] = 255 /\ uds[4] = 0
           THEN ecuTx = <<(<<113, 1, 255, 0, 0>>)>>
           ELSE ecuTx = <<(<<127, 49, 49>>)>>

C13_Witness ==
    /\ Served
    /\ uds = <<34, 0, 135>>
    /\ ecuTx = <<(<<127, 34, 49>>)>>

\* the request is a seed request or a send-key request that is checked
ChangesSecurity(u) ==
    /\ Len(u) >= 2
    /\ u[1] = 39
    /\ u[2] = 1 \/ (u[2] = 2 /\ Len(u) >= 4)

\* the unit has nothing left to do for the request of the last send call
UnitDone == ecuQ = <<>> /\ ecuPc = "recv"

\* C14 as stated: when send ends in Timeout, lastSeed and unlocked are
\* what they were when the request was sent (no earlier request waiting
\* at the unit, so that a change is this request's).
C14_TimeoutLeavesState ==
    (Ended /\ cliResult.kind = "TimeoutError" /\ atSend.alone) =>
        (last_seed = atSend.seed /\ unlocked = atSend.unlocked)

\* C14: a Timeout does not keep the unit from serving the request.  After
\* a send that ended in Timeout, with no earlier request waiting at the
\* unit when it was sent, lastSeed and unlocked are unchanged when
\* the request is neither a seed request nor a checked send-key request;
\* a seed request has stored a seed once the unit is done with it, and a
\* send-key request has set unlocked to the outcome of the key check.
C14_TimeoutDoesNotShield ==
    (Ended /\ cliResult.kind = "TimeoutError" /\ atSend.alone) =>
        /\ ~ChangesSecurity(cliReq) =>
               (last_seed = atSend.seed /\ unlocked = atSend.unlocked)
        /\ (UnitDone /\ ChangesSecurity(cliReq) /\ cliReq[2] = 1) =>
               (last_seed /= <<>> /\ unlocked = atSend.unlocked)
        /\ (UnitDone /\ ChangesSecurity(cliReq) /\ cliReq[2] = 2) =>
               /\ last_seed = atSend.seed
               /\ unlocked = (256 * cliReq[3] + cliReq[4] =
                                 (IF atSend.seed = <<>> THEN 1
                                  ELSE (atSend.seed[1] + 1) % 65536))

C14_Witness ==
    /\ Ended
    /\ cliResult.kind = "TimeoutError"
    /\ cliTimeout = 0
    /\ cliReq = <<39, 2, 18, 53>>
    /\ UnitDone
    /\ ~atSend.unlocked
    /\ unlocked

\* C15: the unit starts with no seed and locked.  lastSeed changes only
\* in the iteration that serves a seed request [0x27, 0x01, ...], which
\* leaves unlocked as it is; unlocked changes only in the iteration that
\* serves a send-key request [0x27, 0x02, ...] of at least 4 bytes, which
\* leaves lastSeed as it is; every other step changes neither.
C15_OnlySecurityAccess ==
    /\ (last_seed = <<>> /\ ~unlocked)
    /\ [][/\ last_seed' /= last_seed =>
                 /\ Serves
                 /\ Len(uds') >= 2 /\ uds'[1] = 39 /\ uds'[2] = 1
                 /\ unlocked' = unlocked
          /\ unlocked' /= unlocked =>
                 /\ Serves
                 /\ Len(uds') >= 4 /\ uds'[1] = 39 /\ uds'[2] = 2
                 /\ last_seed' = last_seed
         ]_vars

C15_Witness ==
    /\ Served
    /\ uds = <<39, 1>>
    /\ unlocked
    /\ last_seed = <<65535>>
    /\ atSend.seed = <<4660>>

\* the frame is one the unit has to discard: another address, or no
\* decoded payload (an empty body, a length nibble of 0, no byte after it)
DiscardCase(m) ==
    \/ m.id /= REQ_ID
    \/ Len(m.data) <= 1
    \/ m.data[1] % 16 = 0

\* C16: the iteration that takes a frame of another address, or a frame
\* whose decoded payload is empty, sends nothing, changes neither lastSeed
\* nor unlocked, and ends at the top of the loop; from there, while not
\* stopped, the worker goes to its next receive.
C16_Discards ==
    [][/\ (ecuPc = "recv" /\ ecuQ /= <<>> /\ ecuPc' /= "recv"
               /\ DiscardCase(Head(ecuQ))) =>
              /\ ecuPc' = "top"
              /\ ecuQ' = Tail(ecuQ)
              /\ cliQ' = cliQ
              /\ uds' = <<>> /\ ecuTx' = <<>>
              /\ last_seed' = last_seed /\ unlocked' = unlocked
       /\ (ecuPc = "top" /\ running /\ ecuPc' /= "top") => ecuPc' = "recv"
      ]_vars

C16_Witness ==
    /\ ecuPc = "top"
    /\ running
    /\ uds = <<>> /\ ecuTx = <<>>
    /\ last_seed = <<4660>>
    /\ cliQ = <<>>
    /\ ecuQ = <<Frame(REQ_ID, <<3, 25, 2>>)>>

\* C17: whatever frames arrive, the worker never ends by an exception: the
\* iteration reads no byte past the end of uds, every payload it sends has
\* at most 7 bytes, and the worker ends only after stop.
C17_NoRequestFatal ==
    /\ ecuPc /= "crashed"
    /\ ecuPc = "stopped" => ~running
    /\ uds /= <<>> => ReadsUpTo(uds) <= Len(uds)
    /\ \A i \in 1..Len(ecuTx) : Len(ecuTx[i]) <= 7
    /\ \A i \in 1..Len(cliQ) : Len(cliQ[i].data) = 8

C17_Witness ==
    /\ Served
    /\ uds = <<25, 2>>
    /\ ecuTx = <<(<<89, 2, 18, 52, 86, 0>>)>>
    /\ ecuQ = <<Frame(REQ_ID, <<15, 39, 2, 0>>)>>

\* C18: once stop is called the worker ends.  An iteration under way is
\* brought to its end: the delay of 0x10 sub 3 runs its full time and the
\* reply [0x50, 0x03] is sent after it, also when stop was called in
\* between.  The worker that finds stop at the top of its loop ends there,
\* receiving and sending nothing, and does nothing afterwards.
C18_Stopping ==
    /\ ~running ~> ecuPc = "stopped"
    /\ [][/\ ~running => ~running'
          /\ (ecuPc = "sleep" /\ ecuPc' /= "sleep") =>
                 /\ ecuSlept = PendingDelay
                 /\ ecuPc' = "top"
                 /\ uds = <<16, 3>> =>
                        cliQ' = Append(cliQ, Frame(RES_ID, <<2, 80, 3, 0, 0, 0, 0, 0>>))
          /\ (ecuPc = "top" /\ ~running /\ ecuPc' /= "top") =>
                 (ecuPc' = "stopped" /\ ecuQ' = ecuQ /\ cliQ' = cliQ)
          /\ ecuPc = "stopped" =>
                 /\ ecuPc' = "stopped"
                 /\ ecuQ' = ecuQ /\ cliQ' = cliQ
                 /\ last_seed' = last_seed /\ unlocked' = unlocked
         ]_vars

C18_Witness ==
    /\ ecuPc = "stopped"
    /\ cliPc = "exit"
    /\ cliReq = <<16, 3>>
    /\ sinceSend = 1
    /\ last_interim = <<127, 16, 120>>
    /\ cliQ = <<Frame(RES_ID, <<2, 80, 3, 0, 0, 0, 0, 0>>)>>

\* the payloads the unit sends for the request req, whatever its state
RepliesTo(req) ==
    IF ParseSF(MakeSF(req)) = <<>> THEN {}
    ELSE UNION {LET r == Dispatch(req, seed, unl, rnd)
                    out == r.out \o (IF r.sleep THEN SessionControlFinal(req) ELSE <<>>)
                IN  {out[i] : i \in 1..Len(out)} :
                seed \in {<<>>} \cup {<<x>> : x \in Seeds},
                unl \in BOOLEAN,
                rnd \in Seeds}

\* C19: the payload send returns is a reply the unit sends for the request
\* of that call.
C19_ResponsePairing ==
    cliResult.kind = "payload" => cliResult.pl \in RepliesTo(cliReq)

\* C20: unlocked implies that a seed is stored; on a unit that has served
\* no seed request no send-key request sets unlocked.
C20_UnlockedNeedsSeed ==
    unlocked => last_seed /= <<>>

\* C21: with a seed s stored, the iteration that serves a send-key request
\* of at least 4 bytes leaves lastSeed as it is, sets unlocked to the
\* outcome of comparing the key with (s + 1) mod 65536, and answers
\* [0x67, 0x02] or [0x7F, 0x27, 0x35] accordingly: whatever keys were
\* checked before, and whether or not the unit is unlocked already.
C21_KeyCheckKeepsSeed ==
    [][(Serves /\ last_seed /= <<>> /\ Len(uds') >= 4
            /\ uds'[1] = 39 /\ uds'[2] = 2) =>
           LET good == 256 * uds'[3] + uds'[4] = (last_seed[1] + 1) % 65536
           IN  /\ last_seed' = last_seed
               /\ unlocked' = good
               /\ ecuTx' = IF good THEN <<(<<103, 2>>)>> ELSE <<(<<127, 39, 53>>)>>
      ]_vars

C21_Witness ==
    /\ Served
    /\ uds = <<39, 2, 18, 53>>
    /\ ecuTx = <<(<<103, 2>>)>>
    /\ atSend = [seed |-> <<4660>>, unlocked |-> TRUE, alone |-> TRUE]
    /\ last_seed = <<4660>>
    /\ unlocked

\* the payloads of tx that are interim replies, and those that are final
Interims(tx) == {i \in 1..Len(tx) : PendingShape(tx[i])}
Finals(tx) == {i \in 1..Len(tx) : ~PendingShape(tx[i])}

\* the request asks for no positive reply and the service honours it
SuppressedPositive(u) ==
    /\ Len(u) >= 2
    /\ u[2] >= 128
    /\ \/ u[1] \in {16, 17} /\ u[2] % 128 \in {1, 3}
       \/ u[1] = 133 /\ u[2] % 128 \in {1, 2}
       \/ u[1] = 62

\* C22: in the iteration that serves a request the unit sends at most one
\* interim reply and at most one final reply; an interim reply only for
\* SessionControl with sub-function 3 after masking bit 7, and as the first
\* payload; at the end of the iteration there is no final reply exactly
\* when the positive reply is suppressed and one otherwise; and the
\* iteration that waits in the delay comes to its end.
C22_ReplyCount ==
    /\ [](/\ Cardinality(Interims(ecuTx)) <= 1
          /\ Cardinality(Finals(ecuTx)) <= 1
          /\ Interims(ecuTx) /= {} =>
                 /\ Interims(ecuTx) = {1}
                 /\ Len(uds) >= 2 /\ uds[1] = 16 /\ uds[2] % 128 = 3
          /\ ecuTx /= <<>> => uds /= <<>>
          /\ Served =>
                 Cardinality(Finals(ecuTx)) = IF SuppressedPositive(uds) THEN 0 ELSE 1)
    /\ (ecuPc = "sleep") ~> Served

C22_Witness ==
    /\ Served
    /\ uds = <<16, 131>>
    /\ ecuTx = <<(<<127, 16, 120>>)>>
    /\ running

=============================================================================
